---------------------------- MODULE Spec2Model ----------------------------
(***************************************************************************)
(* The three MQTT monitors of scripts/: alarm_monitor.py, log_monitor.py   *)
(* and temp_monitor.py.  Each is main() (connect, loop_forever, teardown   *)
(* on KeyboardInterrupt) plus the callbacks on_connect and on_message.     *)
(*                                                                         *)
(* What on_message does for one message is computed as the sequence of     *)
(* its effects in program order: lines appended to the audit log           *)
(* (logging.info / logging.error), lines printed to the console, and the   *)
(* evaluation of the filter predicate.  The files themselves are           *)
(* append-only and never read back, so the state keeps the effects of the  *)
(* most recent handler run and of main(), not the whole files.             *)
(*                                                                         *)
(* Time is in whole seconds, temperatures in whole degrees Celsius.        *)
(***************************************************************************)
EXTENDS Integers, Sequences, FiniteSets, TLC

VARIABLES
    monitor,        \* which script runs: "alarm", "log" or "temp"
    args,           \* parse_arguments() result, fixed at startup
    pc,             \* where main() is: start, connected, subscribed, terminated
    exitCode,       \* process exit status; NoExit while running
    subscriptions,  \* topic patterns passed to client.subscribe
    sessionOpen,    \* client.connect succeeded and client.disconnect not yet called
    mainOut,        \* effects of main() and on_connect, in program order
    lastMsg,        \* the message on_message was last called with
    lastNow,        \* datetime.now(utc) as read by that call
    trace,          \* effects of that call, in program order
    outcome,        \* "none", "returned" (on_message returned) or "interrupted"
    raised,         \* the exception raised in its try body, "" if none
    handled,        \* on_message calls started so far
    prevFault       \* an earlier on_message call went through an except clause

vars == <<monitor, args, pc, exitCode, subscriptions, sessionOpen, mainOut,
          lastMsg, lastNow, trace, outcome, raised, handled, prevFault>>

---------------------------------------------------------------------------
(* Bounds of the model *)

MaxMsgs == 2

MaxSensors == 2

---------------------------------------------------------------------------
(* Python values *)

\* Python's None, for string-valued fields and options
None == "<None>"

\* an absent integer option is the empty tuple, a supplied one <<n>>
NoInt == <<>>

NoExit == <<>>

\* truthiness of an optional string: None and "" are falsy
TruthyStr(s) == s # None /\ s # ""

\* truthiness of an optional integer: None and 0 are falsy
TruthyInt(w) == w # NoInt /\ w[1] # 0

\* a timestamp string, by its shape: "absent" (no such key), "empty" (''),
\* "bad" (not ISO-8601), "naive" (no offset), "Z" (ends in Z), "offset"
\* (ends in +00:00); t is the instant it names, in seconds
Ts(form, t) == [form |-> form, t |-> t]

NoTs == Ts("absent", 0)

\* a details value: no such key, a dict with the given keys, or a string
Details(type, keys) == [type |-> type, keys |-> keys]

NoDetails == Details("absent", <<>>)

\* one element of SensorData: vtype says what sensor['Value'] is
Sensor(vtype, value) == [vtype |-> vtype, Value |-> value]

\* a decoded JSON value: type is "object", "list" or "number"; an object
\* carries its keys, None / "absent" standing for a key that is not there
Value(type, level, source, status, timestamp, details, ackBy, missing, sensors) ==
    [type |-> type, level |-> level, source |-> source, status |-> status,
     timestamp |-> timestamp, details |-> details, acknowledged_by |-> ackBy,
     missing |-> missing, SensorData |-> sensors]

NonObject(type) ==
    Value(type, None, None, None, NoTs, NoDetails, None, "none", <<>>)

NoValue == NonObject("none")

Record(level, source, status, timestamp, details, ackBy) ==
    Value("object", level, source, status, timestamp, details, ackBy, "none", <<>>)

\* a telemetry batch; missing names the required key it lacks, or "none"
Batch(missing, sensors) ==
    Value("object", None, None, None, NoTs, NoDetails, None, missing, sensors)

\* msg.payload: enc "utf8" or "bad" bytes, syntax "json" or "malformed"
Payload(enc, syntax, value) == [enc |-> enc, syntax |-> syntax, value |-> value]

Message(topic, payload) == [topic |-> topic, payload |-> payload]

NoMessage == Message("", Payload("utf8", "json", NoValue))

---------------------------------------------------------------------------
(* The filter predicate *)

Returned(b) == [res |-> IF b THEN "true" ELSE "false", exc |-> ""]

Raised(exc) == [res |-> "raise", exc |-> exc]

\* str.replace('Z', '+00:00') on the timestamp string
replace_Z(ts) == IF ts.form = "Z" THEN Ts("offset", ts.t) ELSE ts

\* datetime.fromisoformat: ValueError unless the string is ISO-8601; a
\* trailing Z is not accepted, an offset gives an aware datetime
fromisoformat(ts) ==
    CASE ts.form = "offset" -> [ok |-> TRUE, aware |-> TRUE, t |-> ts.t]
      [] ts.form = "naive" -> [ok |-> TRUE, aware |-> FALSE, t |-> ts.t]
      [] OTHER -> [ok |-> FALSE, aware |-> FALSE, t |-> 0]

\* data.get('timestamp', ''): the default only when the key is absent
get_timestamp(data) ==
    IF data.timestamp.form = "absent" THEN Ts("empty", 0) ELSE data.timestamp

\* the time-window clause shared by both filters, reached with a truthy
\* time_window: parse, subtract from now(utc), compare with the window
time_window_clause(data, a, now) ==
    IF data.type # "object" THEN Raised("AttributeError")
    ELSE LET parsed == fromisoformat(replace_Z(get_timestamp(data))) IN
         IF ~parsed.ok THEN Raised("ValueError")
         ELSE IF ~parsed.aware THEN Raised("TypeError")
         ELSE IF now - parsed.t > a.time_window[1] * 60 THEN Returned(FALSE)
         ELSE Returned(TRUE)

should_display_alarm_OrStatus(alarm_data, a, now) ==
    IF TruthyStr(a.level) /\ alarm_data.type # "object" THEN Raised("AttributeError")
    ELSE IF TruthyStr(a.level) /\ alarm_data.level # a.level THEN Returned(FALSE)
    ELSE IF TruthyStr(a.source) /\ alarm_data.type # "object" THEN Raised("AttributeError")
    ELSE IF TruthyStr(a.source) /\ alarm_data.source # a.source THEN Returned(FALSE)
    ELSE IF (a.active_only \/ a.acknowledged) /\ alarm_data.type # "object"
    THEN Raised("AttributeError")
    ELSE IF (a.active_only \/ a.acknowledged)
            /\ ~(a.active_only /\ alarm_data.status = "ACTIVE")
            /\ ~(a.acknowledged /\ alarm_data.status = "ACKNOWLEDGED")
    THEN Returned(FALSE)
    ELSE IF TruthyInt(a.time_window) THEN time_window_clause(alarm_data, a, now)
    ELSE Returned(TRUE)

\* alarm_data.get(k) raises AttributeError when the decoded value is no dict;
\* x.get(k) of an absent key is None, which differs from every criterion
should_display_alarm(alarm_data, a, now) ==
    IF TruthyStr(a.level) /\ alarm_data.type # "object" THEN Raised("AttributeError")
    ELSE IF TruthyStr(a.level) /\ alarm_data.level # a.level THEN Returned(FALSE)
    ELSE IF TruthyStr(a.source) /\ alarm_data.type # "object" THEN Raised("AttributeError")
    ELSE IF TruthyStr(a.source) /\ alarm_data.source # a.source THEN Returned(FALSE)
    ELSE IF a.active_only /\ alarm_data.type # "object" THEN Raised("AttributeError")
    ELSE IF a.active_only /\ alarm_data.status # "ACTIVE" THEN Returned(FALSE)
    ELSE IF a.acknowledged /\ alarm_data.type # "object" THEN Raised("AttributeError")
    ELSE IF a.acknowledged /\ alarm_data.status # "ACKNOWLEDGED" THEN Returned(FALSE)
    ELSE IF TruthyInt(a.time_window) THEN time_window_clause(alarm_data, a, now)
    ELSE Returned(TRUE)

should_display_log_EarlyAccept(log_data, a, now) ==
    IF TruthyStr(a.level) /\ log_data.type # "object" THEN Raised("AttributeError")
    ELSE IF TruthyStr(a.level) /\ log_data.level = a.level THEN Returned(TRUE)
    ELSE IF TruthyStr(a.level) THEN Returned(FALSE)
    ELSE IF TruthyStr(a.source) /\ log_data.type # "object" THEN Raised("AttributeError")
    ELSE IF TruthyStr(a.source) /\ log_data.source # a.source THEN Returned(FALSE)
    ELSE IF TruthyInt(a.time_window) THEN time_window_clause(log_data, a, now)
    ELSE Returned(TRUE)

should_display_log(log_data, a, now) ==
    IF TruthyStr(a.level) /\ log_data.type # "object" THEN Raised("AttributeError")
    ELSE IF TruthyStr(a.level) /\ log_data.level # a.level THEN Returned(FALSE)
    ELSE IF TruthyStr(a.source) /\ log_data.type # "object" THEN Raised("AttributeError")
    ELSE IF TruthyStr(a.source) /\ log_data.source # a.source THEN Returned(FALSE)
    ELSE IF TruthyInt(a.time_window) THEN time_window_clause(log_data, a, now)
    ELSE Returned(TRUE)

\* the filter on_message calls in the given monitor
Filter(mon, data, a, now) ==
    IF mon = "alarm" THEN should_display_alarm(data, a, now)
    ELSE should_display_log(data, a, now)

---------------------------------------------------------------------------
(* Effects: what on_message and main() write, in program order *)

\* one effect: a console line (print), an audit-log line (logging.info /
\* logging.error) or the evaluation of the filter (ch = "filter")
Ev(ch, kind, topic, data, text) ==
    [ch |-> ch, kind |-> kind, topic |-> topic, data |-> data, text |-> text]

Console(kind, text) == Ev("console", kind, "", NoValue, text)

\* logging.info(f"Topic: {msg.topic}, Alarm: {data}")
AuditInfo(topic, data) == Ev("audit", "INFO", topic, data, "")

\* logging.error(text)
AuditError(text) == Ev("audit", "ERROR", "", NoValue, text)

FilterEval(r) == Ev("filter", r.res, "", NoValue, r.exc)

\* str(e): the message text of an exception, named after its class here
str(exc) == exc

\* whether the monitor configures a log file (logging.basicConfig)
HasAuditLog(mon) == mon \in {"alarm", "log"}

\* the clause `except json.JSONDecodeError`: a fixed notice, a fixed log line
except_JSONDecodeError(mon) ==
    <<Console("ErrInvalidJSON", "Invalid JSON message")>>
    \o (IF HasAuditLog(mon) THEN <<AuditError("Invalid JSON message received")>>
        ELSE <<>>)

\* the clause `except Exception as e`: print str(e), log str(e)
except_Exception(mon, exc) ==
    <<Console("ErrProcessing", str(exc))>>
    \o (IF HasAuditLog(mon) THEN <<AuditError(str(exc))>> ELSE <<>>)

\* ALARM_LEVELS.get(level, Fore.WHITE)
format_alarm_level(level) ==
    CASE level \in {"CRITICAL", "HIGH"} -> "RED"
      [] level = "MEDIUM" -> "YELLOW"
      [] level = "LOW" -> "GREEN"
      [] level = "INFO" -> "CYAN"
      [] OTHER -> "WHITE"

format_alarm_status(status) ==
    CASE status = "ACTIVE" -> "RED"
      [] status = "ACKNOWLEDGED" -> "YELLOW"
      [] OTHER -> "GREEN"

format_log_level(level) ==
    CASE level = "INFO" -> "GREEN"
      [] level = "WARNING" -> "YELLOW"
      [] level = "ERROR" -> "RED"
      [] level = "DEBUG" -> "CYAN"
      [] OTHER -> "WHITE"

\* data.get(key, default) of a string-valued key
GetOr(v, default) == IF v = None THEN default ELSE v

\* a piece of a try body: the effects it had, and the exception that ended
\* it ("" when it ran to its end)
Ran(out) == [out |-> out, exc |-> ""]

Threw(out, exc) == [out |-> out, exc |-> exc]

\* the details part of a block: nothing without the key; the header, then one
\* line per key; data['details'].items() raises when details is no dict
DetailsPart(data) ==
    CASE data.details.type = "absent" -> Ran(<<>>)
      [] data.details.type = "dict" ->
           Ran(<<Console("DetailsHeader", "")>>
               \o [i \in 1..Len(data.details.keys) |->
                     Console("Detail", data.details.keys[i])])
      [] OTHER -> Threw(<<Console("DetailsHeader", "")>>, "AttributeError")

\* the block alarm_monitor.on_message prints when the filter passes;
\* data.get raises AttributeError when the decoded value is no dict
AlarmBlock(data) ==
    IF data.type # "object"
    THEN Threw(<<Console("BlockOpen", "")>>, "AttributeError")
    ELSE LET head == <<Console("BlockOpen", ""),
                       Console("AlarmID", ""),
                       Console("Timestamp", ""),
                       Console("Level", format_alarm_level(GetOr(data.level, "INFO"))),
                       Console("Status", format_alarm_status(GetOr(data.status, "UNKNOWN"))),
                       Console("Source", GetOr(data.source, "Unknown")),
                       Console("Dash", ""),
                       Console("Message", "")>>
             det == DetailsPart(data)
             ack == IF data.acknowledged_by # None
                    THEN <<Console("AcknowledgedBy", data.acknowledged_by),
                           Console("AcknowledgedAt", "")>>
                    ELSE <<>>
         IN IF det.exc = ""
            THEN Ran(head \o det.out \o ack \o <<Console("BlockClose", "")>>)
            ELSE Threw(head \o det.out, det.exc)

\* the block log_monitor.on_message prints when the filter passes
LogBlock(topic, data) ==
    IF data.type # "object"
    THEN Threw(<<Console("BlockOpen", ""), Console("Topic", topic)>>, "AttributeError")
    ELSE LET head == <<Console("BlockOpen", ""),
                       Console("Topic", topic),
                       Console("Timestamp", ""),
                       Console("Level", format_log_level(GetOr(data.level, "INFO"))),
                       Console("Source", GetOr(data.source, "Unknown")),
                       Console("Dash", ""),
                       Console("Message", "")>>
             det == DetailsPart(data)
         IN IF det.exc = ""
            THEN Ran(head \o det.out \o <<Console("BlockClose", "")>>)
            ELSE Threw(head \o det.out, det.exc)

---------------------------------------------------------------------------
(* temp_monitor.py *)

format_temperature_Inclusive(value) ==
    IF value < 10 THEN "RED"
    ELSE IF value >= 70 THEN "RED"
    ELSE IF value >= 60 THEN "YELLOW"
    ELSE IF value >= 40 THEN "GREEN"
    ELSE "CYAN"

\* the colour format_temperature wraps the reading in
format_temperature(value) ==
    IF value < 10 THEN "RED"
    ELSE IF value > 70 THEN "RED"
    ELSE IF value > 60 THEN "YELLOW"
    ELSE IF value > 40 THEN "GREEN"
    ELSE "CYAN"

\* the print of one sensor row; its f-string raises before anything is
\* written when sensor['Value'] is missing (KeyError) or a string (TypeError)
SensorRow(sensor) ==
    CASE sensor.vtype = "num" ->
           Ran(<<Console("Reading", format_temperature(sensor.Value))>>)
      [] sensor.vtype = "str" -> Threw(<<>>, "TypeError")
      [] OTHER -> Threw(<<>>, "KeyError")

\* the loop over data['SensorData']: rows until the first one that raises
RECURSIVE SensorRows(_)
SensorRows(sensors) ==
    IF sensors = <<>> THEN Ran(<<>>)
    ELSE LET row == SensorRow(Head(sensors)) IN
         IF row.exc # "" THEN row
         ELSE LET rest == SensorRows(Tail(sensors)) IN
              Threw(row.out \o rest.out, rest.exc)

\* the try body of temp_monitor.on_message after json.loads; data[key]
\* raises TypeError on a list or number, KeyError on a missing key
TempBody(data) ==
    LET header == <<Console("MCU", ""), Console("MsgTimestamp", ""),
                    Console("NoOfTempSensors", "")>>
        table == <<Console("ReadingsHeader", ""), Console("Dash", ""),
                   Console("Columns", ""), Console("Dash", "")>>
        rows == SensorRows(data.SensorData)
    IN CASE data.type # "object" -> Threw(<<>>, "TypeError")
         [] data.missing = "MCU" -> Threw(<<>>, "KeyError")
         [] data.missing = "MsgTimestamp" -> Threw(SubSeq(header, 1, 1), "KeyError")
         [] data.missing = "NoOfTempSensors" -> Threw(SubSeq(header, 1, 2), "KeyError")
         [] data.missing = "SensorData" -> Threw(header \o table, "KeyError")
         [] rows.exc # "" -> Threw(header \o table \o rows.out, rows.exc)
         [] OTHER -> Ran(header \o table \o rows.out \o <<Console("Dash", "")>>)

---------------------------------------------------------------------------
(* on_message *)

AfterDecode_FilterFirst(mon, a, topic, data, now) ==
    LET r == Filter(mon, data, a, now)
        block == IF mon = "alarm" THEN AlarmBlock(data) ELSE LogBlock(topic, data)
    IN CASE r.res = "raise" -> Threw(<<FilterEval(r)>>, r.exc)
         [] r.res = "false" -> Ran(<<FilterEval(r)>>)
         [] OTHER -> Threw(<<FilterEval(r), AuditInfo(topic, data)>> \o block.out,
                           block.exc)

\* alarm and log monitors, after json.loads returned data: the audit line,
\* then the filter, then the block when it passes
AfterDecode(mon, a, topic, data, now) ==
    LET r == Filter(mon, data, a, now)
        block == IF mon = "alarm" THEN AlarmBlock(data) ELSE LogBlock(topic, data)
    IN CASE r.res = "raise" -> Threw(<<AuditInfo(topic, data), FilterEval(r)>>, r.exc)
         [] r.res = "false" -> Ran(<<AuditInfo(topic, data), FilterEval(r)>>)
         [] OTHER -> Threw(<<AuditInfo(topic, data), FilterEval(r)>> \o block.out,
                           block.exc)

\* msg.payload.decode() then json.loads(): the decoded value, or the
\* exception raised (UnicodeDecodeError is no JSONDecodeError); any JSON
\* value decodes, an object or not
json_loads(payload) ==
    CASE payload.enc # "utf8" -> [exc |-> "UnicodeDecodeError", value |-> NoValue]
      [] payload.syntax # "json" -> [exc |-> "JSONDecodeError", value |-> NoValue]
      [] OTHER -> [exc |-> "", value |-> payload.value]

\* the try body of on_message
TryBody(mon, a, msg, now) ==
    LET d == json_loads(msg.payload) IN
    CASE d.exc # "" -> Threw(<<>>, d.exc)
      [] mon = "temp" -> TempBody(d.value)
      [] OTHER -> AfterDecode(mon, a, msg.topic, d.value, now)

except_Exception_catches_ValueErrors(exc) ==
    exc \in {"ValueError", "UnicodeDecodeError"}

\* `except Exception` catches every exception class but the BaseException
\* ones; of those only KeyboardInterrupt can arise here
except_Exception_catches(exc) == exc # "KeyboardInterrupt"

\* one on_message call that is not interrupted: its effects, the exception
\* raised in the try body, and the exception that leaves the callback
on_message(mon, a, msg, now) ==
    LET body == TryBody(mon, a, msg, now) IN
    CASE body.exc = "" -> [out |-> body.out, raised |-> "", escaped |-> ""]
      [] body.exc = "JSONDecodeError" ->
           [out |-> body.out \o except_JSONDecodeError(mon),
            raised |-> body.exc, escaped |-> ""]
      [] except_Exception_catches(body.exc) ->
           [out |-> body.out \o except_Exception(mon, body.exc),
            raised |-> body.exc, escaped |-> ""]
      [] OTHER -> [out |-> body.out, raised |-> body.exc, escaped |-> body.exc]

---------------------------------------------------------------------------
(* Inputs: command lines, messages, clock readings *)

Monitors == {"alarm", "log", "temp"}

Args(level, source, active_only, acknowledged, time_window, topic) ==
    [level |-> level, source |-> source, active_only |-> active_only,
     acknowledged |-> acknowledged, time_window |-> time_window, topic |-> topic]

\* --source takes any string, the empty one included; --time-window any int
SourceOptions == {None, "", "pump-3"}

WindowOptions == {NoInt, <<0>>, <<30>>, <<120>>}

\* the command lines parse_arguments accepts, per monitor; temp_monitor
\* takes no options
ArgsOf(mon) ==
    CASE mon = "alarm" ->
           {Args(l, s, ao, ak, w, None) :
              l \in {None, "CRITICAL"}, s \in SourceOptions,
              ao \in BOOLEAN, ak \in BOOLEAN, w \in WindowOptions}
      [] mon = "log" ->
           {Args(l, s, FALSE, FALSE, w, t) :
              l \in {None, "ERROR"}, s \in SourceOptions,
              w \in WindowOptions, t \in {None, "logs/app"}}
      [] OTHER -> {Args(None, None, FALSE, FALSE, NoInt, None)}

\* the instants datetime.now(utc) may return, in seconds
NowValues == {7200, 7201}

\* timestamps a record may carry: none, not ISO-8601, naive, and aware ones
\* 0, 30, 90 and 120 minutes before the earlier clock reading
Timestamps ==
    {NoTs, Ts("bad", 0), Ts("naive", 7200),
     Ts("Z", 7200), Ts("Z", 5400), Ts("offset", 1800), Ts("Z", 0)}

AlarmRecords ==
    {Record(l, s, st, ts, NoDetails, None) :
       l \in {None, "CRITICAL", "INFO"}, s \in {None, "pump-3", "fan-1"},
       st \in {None, "ACTIVE", "ACKNOWLEDGED"}, ts \in Timestamps}
    \cup {Record("CRITICAL", "pump-3", st, Ts("Z", 7200), d, ak) :
            st \in {"ACTIVE", "ACKNOWLEDGED"},
            d \in {Details("dict", <<"rpm", "temp">>), Details("str", <<>>)},
            ak \in {None, "operator"}}

LogRecords ==
    {Record(l, s, None, ts, NoDetails, None) :
       l \in {None, "ERROR", "INFO"}, s \in {None, "pump-3", "fan-1"},
       ts \in Timestamps}
    \cup {Record("ERROR", "pump-3", None, Ts("Z", 7200), d, None) :
            d \in {Details("dict", <<"rpm", "temp">>), Details("str", <<>>)}}

Temperatures == {9, 10, 11, 40, 41, 45, 60, 61, 70, 71, 75}

SensorValues ==
    {Sensor("num", v) : v \in Temperatures}
    \cup {Sensor("str", 0), Sensor("missing", 0)}

SensorLists == UNION {[1..n -> SensorValues] : n \in 0..MaxSensors}

Batches ==
    {Batch("none", ss) : ss \in SensorLists}
    \cup {Batch(k, <<>>) : k \in {"MCU", "MsgTimestamp", "NoOfTempSensors", "SensorData"}}

\* the JSON values a payload may hold: the monitor's records, and values
\* that are no object
ValuesOf(mon) ==
    {NonObject("list"), NonObject("number")}
    \cup (CASE mon = "alarm" -> AlarmRecords
            [] mon = "log" -> LogRecords
            [] OTHER -> Batches)

PayloadsOf(mon) ==
    {Payload("bad", "malformed", NoValue), Payload("utf8", "malformed", NoValue)}
    \cup {Payload("utf8", "json", v) : v \in ValuesOf(mon)}

\* the pattern on_connect subscribes to
SubscribedPattern(mon, a) ==
    CASE mon = "alarm" -> "alarms/#"
      [] mon = "log" -> IF TruthyStr(a.topic) THEN a.topic ELSE "logs/#"
      [] OTHER -> "sensors/+/temperature"

\* a topic the broker delivers under that pattern
TopicOf(mon) ==
    CASE mon = "alarm" -> "alarms/pump-3"
      [] mon = "log" -> "logs/app"
      [] OTHER -> "sensors/mcu1/temperature"

MessagesOf(mon) == {Message(TopicOf(mon), p) : p \in PayloadsOf(mon)}

\* the runs of the whole driver draw from a few command lines and messages
\* of each shape; the single-message runs draw from all of the above
DriverArgsOf(mon) ==
    CASE mon = "alarm" ->
           {Args(None, None, ao, ak, w, None) :
              ao \in BOOLEAN, ak \in BOOLEAN, w \in {NoInt, <<30>>}}
      [] mon = "log" ->
           {Args(None, None, FALSE, FALSE, w, t) :
              w \in {NoInt, <<30>>, <<120>>}, t \in {None, "logs/app"}}
      [] OTHER -> ArgsOf(mon)

DriverValuesOf(mon) ==
    CASE mon = "alarm" ->
           {NonObject("list"),
            Record("CRITICAL", "pump-3", "ACTIVE", Ts("Z", 7200), NoDetails, None),
            Record("CRITICAL", "pump-3", "ACTIVE", NoTs, NoDetails, None),
            Record("CRITICAL", "pump-3", "ACKNOWLEDGED", Ts("Z", 7200),
                   Details("dict", <<"rpm", "temp">>), "operator"),
            Record("CRITICAL", "pump-3", "ACTIVE", Ts("Z", 7200),
                   Details("str", <<>>), None)}
      [] mon = "log" ->
           {NonObject("list"),
            Record("ERROR", "pump-3", None, Ts("offset", 1800), NoDetails, None),
            Record("ERROR", "pump-3", None, Ts("bad", 0), NoDetails, None),
            Record("ERROR", "pump-3", None, Ts("Z", 7200),
                   Details("dict", <<"rpm", "temp">>), None),
            Record("ERROR", "pump-3", None, Ts("Z", 7200), Details("str", <<>>), None)}
      [] OTHER ->
           {NonObject("list"), Batch("MCU", <<>>), Batch("SensorData", <<>>),
            Batch("none", <<Sensor("num", 75), Sensor("num", 45)>>),
            Batch("none", <<Sensor("num", 45), Sensor("str", 0)>>)}

DriverMessagesOf(mon) ==
    {Message(TopicOf(mon), p) :
       p \in {Payload("bad", "malformed", NoValue), Payload("utf8", "malformed", NoValue)}
              \cup {Payload("utf8", "json", v) : v \in DriverValuesOf(mon)}}

\* the clock readings drawn for a call: all of them when a time window is
\* given and the record carries an aware timestamp, else a single one, as
\* the clock then bears on nothing
ClockOf(mon, a, msg) ==
    LET d == json_loads(msg.payload) IN
    IF /\ mon # "temp"
       /\ a.time_window # NoInt
       /\ d.exc = ""
       /\ d.value.type = "object"
       /\ fromisoformat(replace_Z(get_timestamp(d.value))).aware
    THEN NowValues
    ELSE {0}

---------------------------------------------------------------------------
(* main(), on_connect and the receive loop *)

\* main() after a successful connect: the banner, then loop_forever
Banner(mon) ==
    <<Console("Starting", ""), Console("PressCtrlC", "")>>
    \o (IF HasAuditLog(mon) THEN <<Console("LogFile", "")>> ELSE <<>>)

connect_failed_PrintOnly(mon) ==
    <<Console("ErrConnect", str("ConnectionRefusedError"))>>

\* the except clause around client.connect: print, log, sys.exit(1)
connect_failed(mon) ==
    <<Console("ErrConnect", str("ConnectionRefusedError"))>>
    \o (IF HasAuditLog(mon) THEN <<AuditError(str("ConnectionRefusedError"))>>
        ELSE <<>>)

\* the process as main() starts, its command line parsed
Init ==
    /\ monitor \in Monitors
    /\ args \in DriverArgsOf(monitor)
    /\ pc = "start"
    /\ exitCode = NoExit
    /\ subscriptions = {}
    /\ sessionOpen = FALSE
    /\ mainOut = <<>>
    /\ lastMsg = NoMessage
    /\ lastNow = 0
    /\ trace = <<>>
    /\ outcome = "none"
    /\ raised = ""
    /\ handled = 0
    /\ prevFault = FALSE

\* client.connect succeeds; main() prints the banner and enters loop_forever
ConnectOk ==
    /\ pc = "start"
    /\ pc' = "connected"
    /\ sessionOpen' = TRUE
    /\ mainOut' = Banner(monitor)
    /\ UNCHANGED <<monitor, args, exitCode, subscriptions, lastMsg, lastNow,
                   trace, outcome, raised, handled, prevFault>>

\* client.connect raises: report and exit with status 1
ConnectFail ==
    /\ pc = "start"
    /\ pc' = "terminated"
    /\ exitCode' = <<1>>
    /\ mainOut' = connect_failed(monitor)
    /\ UNCHANGED <<monitor, args, subscriptions, sessionOpen, lastMsg, lastNow,
                   trace, outcome, raised, handled, prevFault>>

\* on_connect: print, subscribe
OnConnect ==
    /\ pc = "connected"
    /\ pc' = "subscribed"
    /\ mainOut' = Append(mainOut, Console("Connected", ""))
    /\ subscriptions' = subscriptions \cup {SubscribedPattern(monitor, args)}
    /\ UNCHANGED <<monitor, args, exitCode, sessionOpen, lastMsg, lastNow,
                   trace, outcome, raised, handled, prevFault>>

\* main()'s `except KeyboardInterrupt` around loop_forever: the notice,
\* client.disconnect(), and main() returns (status 0)
Teardown ==
    /\ pc' = "terminated"
    /\ exitCode' = <<0>>
    /\ sessionOpen' = FALSE
    /\ mainOut' = Append(mainOut, Console("Stopping", ""))

\* an exception main() has no clause for leaves it: traceback, status 1
Uncaught ==
    /\ pc' = "terminated"
    /\ exitCode' = <<1>>
    /\ UNCHANGED <<sessionOpen, mainOut>>

\* the broker delivers a message and on_message runs to its end
OnMessage(msg, now) ==
    /\ pc = "subscribed"
    /\ handled < MaxMsgs
    /\ LET r == on_message(monitor, args, msg, now) IN
       /\ trace' = r.out
       /\ raised' = r.raised
       /\ IF r.escaped = ""
          THEN /\ outcome' = "returned"
               /\ UNCHANGED <<pc, exitCode, sessionOpen, mainOut>>
          ELSE /\ outcome' = "escaped"
               /\ Uncaught
    /\ lastMsg' = msg
    /\ lastNow' = now
    /\ handled' = handled + 1
    /\ prevFault' = (prevFault \/ raised # "")
    /\ UNCHANGED <<monitor, args, subscriptions>>

\* where a call can be cut short: after any number of its effects but all
InterruptPoints(mon, a, msg, now) ==
    0..(Len(on_message(mon, a, msg, now).out) - 1)

\* the operator's SIGINT arrives while on_message runs: KeyboardInterrupt is
\* raised after the first k effects of the call, no except clause of
\* on_message catches it, and it reaches main()
OnMessageInterrupted(msg, now, k) ==
    /\ pc = "subscribed"
    /\ handled < MaxMsgs
    /\ k \in InterruptPoints(monitor, args, msg, now)
    /\ trace' = SubSeq(on_message(monitor, args, msg, now).out, 1, k)
    /\ raised' = "KeyboardInterrupt"
    /\ ~except_Exception_catches("KeyboardInterrupt")
    /\ outcome' = "interrupted"
    /\ Teardown
    /\ lastMsg' = msg
    /\ lastNow' = now
    /\ handled' = handled + 1
    /\ prevFault' = (prevFault \/ raised # "")
    /\ UNCHANGED <<monitor, args, subscriptions>>

\* the operator's SIGINT arrives while loop_forever waits for the network
Interrupt ==
    /\ pc \in {"connected", "subscribed"}
    /\ Teardown
    /\ UNCHANGED <<monitor, args, subscriptions, lastMsg, lastNow, trace,
                   outcome, raised, handled, prevFault>>


Next ==
    \/ ConnectOk
    \/ ConnectFail
    \/ OnConnect
    \/ \E msg \in DriverMessagesOf(monitor) :
         \E now \in ClockOf(monitor, args, msg) : OnMessage(msg, now)
    \/ \E msg \in DriverMessagesOf(monitor) :
         \E now \in ClockOf(monitor, args, msg) :
           \E k \in InterruptPoints(monitor, args, msg, now) :
             OnMessageInterrupted(msg, now, k)
    \/ Interrupt

\* the driver: any run of main() over the driver's inputs
Spec == Init /\ [][Next]_vars

\* as Init, over every command line
HandlerInit ==
    /\ monitor \in Monitors
    /\ args \in ArgsOf(monitor)
    /\ pc = "start"
    /\ exitCode = NoExit
    /\ subscriptions = {}
    /\ sessionOpen = FALSE
    /\ mainOut = <<>>
    /\ lastMsg = NoMessage
    /\ lastNow = 0
    /\ trace = <<>>
    /\ outcome = "none"
    /\ raised = ""
    /\ handled = 0
    /\ prevFault = FALSE

\* the first message after startup, any message of the monitor's inputs
OnFirstMessage(msg, now) ==
    /\ handled = 0
    /\ OnMessage(msg, now)

HandlerNext ==
    \/ ConnectOk
    \/ OnConnect
    \/ \E msg \in MessagesOf(monitor) :
         \E now \in ClockOf(monitor, args, msg) : OnFirstMessage(msg, now)

\* one on_message call, over every command line and message
HandlerSpec == HandlerInit /\ [][HandlerNext]_vars

---------------------------------------------------------------------------
(* Vocabulary of the properties *)

\* what json.loads made of the last message
Decoded == json_loads(lastMsg.payload)

\* the last call was made in a monitor that filters, and returned
FilteringCallReturned ==
    /\ monitor \in {"alarm", "log"}
    /\ handled > 0
    /\ outcome = "returned"

Positions(ch) == {i \in DOMAIN trace : trace[i].ch = ch}

ErrorNotices ==
    {i \in Positions("console") : trace[i].kind \in {"ErrInvalidJSON", "ErrProcessing"}}

\* the console lines that belong to a formatted block
BlockLines == Positions("console") \ ErrorNotices

\* the filter was evaluated and returned true
Passed == \E i \in Positions("filter") : trace[i].kind = "true"

\* C1: in the alarm and log monitors, a message whose payload decodes gets
\* exactly one audit line holding its topic and the decoded record; that line
\* is the first effect of the call, before the single evaluation of the
\* filter, whatever the filter then answers; block lines are on the console
\* only if the filter passed, and after a rejection nothing more is written.
\* (A call cut short by the operator's interrupt has had a prefix of these
\* effects: the order holds of it too.)
C1_AuditBeforeFilter ==
    (monitor \in {"alarm", "log"} /\ handled > 0 /\ Decoded.exc = "") =>
        LET line == AuditInfo(lastMsg.topic, Decoded.value)
            answer == FilterEval(Filter(monitor, Decoded.value, args, lastNow))
        IN /\ trace # <<>> => trace[1] = line
           /\ {i \in Positions("audit") : trace[i].kind = "INFO"} \subseteq {1}
           /\ Positions("filter") \subseteq {2}
           /\ Len(trace) >= 2 => trace[2] = answer
           /\ outcome = "returned" => Len(trace) >= 2
           /\ BlockLines # {} => answer.kind = "true"
           /\ (outcome = "returned" /\ answer.kind = "false") => Len(trace) = 2

\* Scenario B: an ACTIVE alarm under --acknowledged is audited, not displayed
C1_Witness ==
    /\ FilteringCallReturned
    /\ monitor = "alarm"
    /\ args.acknowledged /\ ~args.active_only
    /\ Decoded.exc = "" /\ Decoded.value.status = "ACTIVE"
    /\ trace = <<AuditInfo(lastMsg.topic, Decoded.value), FilterEval(Returned(FALSE))>>

\* C2: a payload that is not JSON, or is JSON but no object, is rejected
\* wholesale: one audit line, recording the failure; no record line, no
\* filter evaluation, no line of a block; one error notice on the console.
C2_RejectedWholesale ==
    (FilteringCallReturned /\ (Decoded.exc # "" \/ Decoded.value.type # "object")) =>
        /\ Cardinality(Positions("audit")) = 1
        /\ \A i \in Positions("audit") : trace[i].kind = "ERROR"
        /\ Positions("filter") = {}
        /\ BlockLines = {}
        /\ Cardinality(ErrorNotices) = 1

\* C3: the filter never raises on a decoded record; with a time window
\* given and the timestamp absent or unparsable it returns false, so the
\* record is audited and nothing else is written.
C3_FilterTotal ==
    (FilteringCallReturned /\ Decoded.exc = "" /\ Decoded.value.type = "object") =>
        /\ Filter(monitor, Decoded.value, args, lastNow).res # "raise"
        /\ raised = ""
        /\ (/\ args.time_window # NoInt
            /\ Decoded.value.timestamp.form \in {"absent", "bad"}
            => trace = <<AuditInfo(lastMsg.topic, Decoded.value),
                         FilterEval(Returned(FALSE))>>)

\* a decoded record reached the alarm filter
AlarmRecordFiltered ==
    /\ FilteringCallReturned
    /\ monitor = "alarm"
    /\ Decoded.exc = ""
    /\ Decoded.value.type = "object"

\* the record matches every one of the four criteria for which given(c) holds
MatchesAll(d, a, givenLevel, givenSource) ==
    /\ givenLevel => d.level = a.level
    /\ givenSource => d.source = a.source
    /\ a.active_only => d.status = "ACTIVE"
    /\ a.acknowledged => d.status = "ACKNOWLEDGED"

NoCriteria(a) ==
    /\ a.level = None /\ a.source = None
    /\ ~a.active_only /\ ~a.acknowledged /\ a.time_window = NoInt

\* C4 as stated: the alarm filter is the conjunction of the criteria
\* supplied (any value but None counts as supplied): a record that passes
\* matches each of them, and without a time window a record that matches each
\* of them passes; with no criteria every decoded value passes; with both
\* --active-only and --acknowledged nothing passes.
C4_ConjunctionOfSupplied ==
    /\ AlarmRecordFiltered =>
         LET m == MatchesAll(Decoded.value, args, args.level # None, args.source # None)
         IN /\ Passed => m
            /\ (args.time_window = NoInt /\ m) => Passed
    /\ (FilteringCallReturned /\ Decoded.exc = "" /\ NoCriteria(args)) => Passed
    /\ (FilteringCallReturned /\ args.active_only /\ args.acknowledged) => ~Passed

\* C4 as amended: the same, a source given as the empty string counting as
\* not supplied.
C4_ConjunctionOfNonEmpty ==
    /\ AlarmRecordFiltered =>
         LET m == MatchesAll(Decoded.value, args, args.level # None,
                             args.source # None /\ args.source # "")
         IN /\ Passed => m
            /\ (args.time_window = NoInt /\ m) => Passed
    /\ (FilteringCallReturned /\ Decoded.exc = "" /\ NoCriteria(args)) => Passed
    /\ (FilteringCallReturned /\ args.active_only /\ args.acknowledged) => ~Passed

\* a record that matches level, source and status criteria is displayed
C4_Witness ==
    /\ AlarmRecordFiltered
    /\ args.level = "CRITICAL" /\ args.source = "pump-3"
    /\ args.active_only /\ ~args.acknowledged /\ args.time_window = NoInt
    /\ Decoded.value.level = "CRITICAL" /\ Decoded.value.source = "pump-3"
    /\ Decoded.value.status = "ACTIVE"
    /\ Passed
    /\ BlockLines # {}

\* b supplies every criterion a supplies, with the same value
Extends(a, b) ==
    /\ a.level # None => b.level = a.level
    /\ a.source # None => b.source = a.source
    /\ a.active_only => b.active_only
    /\ a.acknowledged => b.acknowledged
    /\ a.time_window # NoInt => b.time_window = a.time_window
    /\ b.topic = a.topic

\* the clock readings under which a wider criteria set is compared with
\* the last call: the reading that call was made at, when one was drawn
SameClock == IF lastNow # 0 THEN {lastNow} ELSE NowValues

\* C5: a decoded value that did not pass under the criteria in force passes
\* under no criteria set that extends them.
C5_Monotonic ==
    (FilteringCallReturned /\ Decoded.exc = "" /\ ~Passed) =>
        \A b \in ArgsOf(monitor) :
            Extends(args, b) =>
                \A now \in SameClock :
                    Filter(monitor, Decoded.value, b, now).res # "true"

\* an ACKNOWLEDGED alarm is rejected under --active-only alone, a criteria
\* set that --acknowledged extends
C5_Witness ==
    /\ AlarmRecordFiltered
    /\ args = Args(None, None, TRUE, FALSE, NoInt, None)
    /\ Decoded.value.status = "ACKNOWLEDGED"
    /\ ~Passed
    /\ Extends(args, Args(None, None, TRUE, TRUE, NoInt, None))

\* C9: with a time window of W minutes given, W = 0 included, a record with
\* an aware timestamp that meets the other criteria passes iff its age at
\* the call, now - timestamp, is at most W minutes.
C9_WindowBoundsAge ==
    (/\ FilteringCallReturned
     /\ Decoded.exc = "" /\ Decoded.value.type = "object"
     /\ args.time_window # NoInt
     /\ Decoded.value.timestamp.form \in {"Z", "offset"}
     /\ Filter(monitor, Decoded.value, [args EXCEPT !.time_window = NoInt], 0).res = "true")
    => (Passed <=> lastNow - Decoded.value.timestamp.t <= args.time_window[1] * 60)

\* C10 as stated: below 10 or above 70 red, 60 to 70 yellow, 40 to 60
\* green, from 10 to below 40 cyan (60 may be either of its two bands).
TableColours(v) ==
    (IF v < 10 \/ v > 70 THEN {"RED"} ELSE {})
    \cup (IF 60 <= v /\ v <= 70 THEN {"YELLOW"} ELSE {})
    \cup (IF 40 <= v /\ v <= 60 THEN {"GREEN"} ELSE {})
    \cup (IF 10 <= v /\ v < 40 THEN {"CYAN"} ELSE {})

\* the code's bands: each upper edge belongs to the band below it
BandColour(v) ==
    CASE v < 10 \/ v > 70 -> "RED"
      [] 60 < v /\ v <= 70 -> "YELLOW"
      [] 40 < v /\ v <= 60 -> "GREEN"
      [] OTHER -> "CYAN"

\* the rows of the last batch that were printed: those before the first
\* sensor whose value is no number
PrintedRows ==
    {k \in DOMAIN Decoded.value.SensorData :
       \A j \in 1..k : Decoded.value.SensorData[j].vtype = "num"}

TempBatchPrinted ==
    /\ monitor = "temp"
    /\ handled > 0
    /\ outcome = "returned"
    /\ Decoded.exc = ""
    /\ Decoded.value.type = "object"
    /\ Decoded.value.missing = "none"

\* C10 as stated: every printed reading has a colour the table gives it.
C10_TableColour ==
    TempBatchPrinted =>
        \A k \in PrintedRows :
            /\ trace[7 + k].kind = "Reading"
            /\ trace[7 + k].text \in TableColours(Decoded.value.SensorData[k].Value)

\* C10 as amended: red below 10 or above 70; yellow above 60 up to 70; green
\* above 40 up to 60; cyan from 10 up to 40.
C10_BandColour ==
    TempBatchPrinted =>
        /\ Cardinality({i \in DOMAIN trace : trace[i].kind = "Reading"})
             = Cardinality(PrintedRows)
        /\ \A k \in PrintedRows :
             trace[7 + k] = Console("Reading", BandColour(Decoded.value.SensorData[k].Value))

\* a batch with readings 75 and 40 is printed: red, then cyan
C10_Witness ==
    /\ TempBatchPrinted
    /\ Decoded.value.SensorData = <<Sensor("num", 75), Sensor("num", 40)>>
    /\ trace[8].text = "RED"
    /\ trace[9].text = "CYAN"

\* the part of C9 the code keeps: the same for every window but 0
C9_NonZeroWindow ==
    (/\ FilteringCallReturned
     /\ Decoded.exc = "" /\ Decoded.value.type = "object"
     /\ TruthyInt(args.time_window)
     /\ Decoded.value.timestamp.form \in {"Z", "offset"}
     /\ Filter(monitor, Decoded.value, [args EXCEPT !.time_window = NoInt], 0).res = "true")
    => (Passed <=> lastNow - Decoded.value.timestamp.t <= args.time_window[1] * 60)

\* the last console line of the last call
LastConsoleLine ==
    LET c == Positions("console")
    IN trace[CHOOSE i \in c : \A j \in c : j <= i]

\* the driver is in its receive loop, its session and subscription intact
StillSubscribed ==
    /\ pc = "subscribed"
    /\ sessionOpen
    /\ exitCode = NoExit
    /\ subscriptions = {SubscribedPattern(monitor, args)}

\* the run has not ended, or the operator's interrupt ended it
AliveUnlessInterrupted ==
    \/ StillSubscribed
    \/ /\ pc = "terminated"
       /\ exitCode = <<0>>
       /\ mainOut[Len(mainOut)] = Console("Stopping", "")

\* the last call ended as a call with these inputs does, whatever came before
HandledNormally ==
    trace = on_message(monitor, args, lastMsg, lastNow).out

\* C6 as stated: a fault in handling a message never leaves on_message; it
\* is reported on the console with its message text, and the driver stays
\* subscribed (until the operator interrupts) and handles what follows as
\* usual.
C6_ReportedWithItsText ==
    /\ outcome # "escaped"
    /\ (outcome = "returned" /\ raised # "") =>
         /\ AliveUnlessInterrupted
         /\ Positions("console") # {}
         /\ LastConsoleLine.text = str(raised)
    /\ (outcome = "returned" /\ prevFault) => (AliveUnlessInterrupted /\ HandledNormally)

\* C6 as amended: the same, except that malformed JSON is reported by the
\* fixed notice "Invalid JSON message" and every other fault by a notice
\* carrying its message text.
C6_CaughtAndReported ==
    /\ outcome # "escaped"
    /\ (outcome = "returned" /\ raised # "") =>
         /\ AliveUnlessInterrupted
         /\ Positions("console") # {}
         /\ LastConsoleLine =
              (IF raised = "JSONDecodeError"
               THEN Console("ErrInvalidJSON", "Invalid JSON message")
               ELSE Console("ErrProcessing", str(raised)))
    /\ (outcome = "returned" /\ prevFault) => (AliveUnlessInterrupted /\ HandledNormally)

\* after a message that faulted, a second message was handled without fault
C6_Witness ==
    /\ handled = 2
    /\ prevFault
    /\ outcome = "returned"
    /\ raised = ""
    /\ BlockLines # {}
    /\ StillSubscribed

\* main() ended because client.connect raised
ConnectFailed ==
    /\ pc = "terminated"
    /\ exitCode # NoExit /\ exitCode # <<0>>
    /\ outcome = "none"

C8_InterruptBetweenMessages ==
    (pc = "terminated" /\ exitCode = <<0>>) =>
        /\ ~sessionOpen
        /\ mainOut[Len(mainOut)] = Console("Stopping", "")
        /\ handled > 0 => (outcome = "returned" /\ HandledNormally)

=============================================================================
